---- MODULE Spec2Model ----
(***************************************************************************)
(* Model of src/hex.rs of rust-slack: the HexColor value, its two          *)
(* constructors (HexColorT::new on &str and on &SlackColor) and its        *)
(* serialisation (fmt::Debug, used by ToJson and Encodable).               *)
(*                                                                         *)
(* A Rust string is a sequence of characters; a character is a one-letter  *)
(* TLA+ string, except the two-byte character U+00E9, written "U+00E9".    *)
(* Byte offsets are kept apart from character counts: chars().count()      *)
(* counts characters, self[1..] and from_hex work on bytes.                *)
(***************************************************************************)
EXTENDS Integers, Sequences, FiniteSets

VARIABLES input, color, pc, result, text, result2

vars == <<input, color, pc, result, text, result2>>

\* ---------------------------------------------------------------- bounds

\* longest input string, in characters
MaxLen == 7

\* characters the enumerated inputs are built from: '#' (which after the
\* first place is a character the decoder rejects), a lower-case and an
\* upper-case hex digit, a whitespace character and a two-byte character
Alphabet == {"#", "a", "D", " ", "U+00E9"}

\* ------------------------------------------------------- characters, bytes

HexDigits ==
    {"0", "1", "2", "3", "4", "5", "6", "7", "8", "9",
     "a", "b", "c", "d", "e", "f", "A", "B", "C", "D", "E", "F"}

\* the bytes from_hex skips: b' ' | b'\r' | b'\n' | b'\t'
HexWhitespace == {" ", "\r", "\n", "\t"}

\* number of bytes of a character in UTF-8
Utf8Len(c) == IF c = "U+00E9" THEN 2 ELSE 1

\* the bytes of a string: byte k of character ch
RECURSIVE bytes(_)
bytes(s) ==
    IF s = <<>> THEN <<>>
    ELSE [k \in 1..Utf8Len(Head(s)) |-> [ch |-> Head(s), k |-> k]] \o bytes(Tail(s))

\* ----------------------------------------------------------------- values

SlackColor == {"Good", "Warning", "Danger"}

NoColor == "None"

SLACK_COLORS ==
    << <<"g", "o", "o", "d">>,
       <<"w", "a", "r", "n", "i", "n", "g">>,
       <<"d", "a", "n", "g", "e", "r">> >>

Ok(s) == [ok |-> TRUE, text |-> s, kind |-> "", desc |-> "", ch |-> "", idx |-> -1]

Fail(kind, desc) ==
    [ok |-> FALSE, text |-> <<>>, kind |-> kind, desc |-> desc, ch |-> "", idx |-> -1]

InvalidHexCharacter(ch, idx) ==
    [ok |-> FALSE, text |-> <<>>, kind |-> "ErrFromHex", desc |-> "Invalid character",
     ch |-> ch, idx |-> idx]

InvalidHexLength == Fail("ErrFromHex", "Invalid input length")

Panic == Fail("panic", "panic")

NoResult == Fail("none", "")

WrongLengthMsg == "Must be 7 characters long (including #)"

MissingHashMsg == "No leading #"

\* ------------------------------------------------------------- SlackColor

as_ref_warn(c) ==
    CASE c = "Good" -> <<"g", "o", "o", "d">>
      [] c = "Warning" -> <<"w", "a", "r", "n">>
      [] c = "Danger" -> <<"d", "a", "n", "g", "e", "r">>

as_ref(c) ==
    CASE c = "Good" -> <<"g", "o", "o", "d">>
      [] c = "Warning" -> <<"w", "a", "r", "n", "i", "n", "g">>
      [] c = "Danger" -> <<"d", "a", "n", "g", "e", "r">>

to_string(c) == as_ref(c)

\* ------------------------------------------------------------ hex decoder

\* from_hex's loop over the bytes b of its argument, at 1-based byte index i
\* (the code's idx is i - 1); modulus is the number of pending hex digits
RECURSIVE from_hex_loop(_, _, _)
from_hex_loop(b, i, modulus) ==
    IF i > Len(b)
    THEN IF modulus = 0 THEN Ok(<<>>) ELSE InvalidHexLength
    ELSE LET byte == b[i] IN
         IF byte.k = 1 /\ byte.ch \in HexDigits
         THEN from_hex_loop(b, i + 1, (modulus + 1) % 2)
         ELSE IF byte.k = 1 /\ byte.ch \in HexWhitespace
         THEN from_hex_loop(b, i + 1, modulus)
         ELSE IF byte.k = 1
         THEN InvalidHexCharacter(byte.ch, i - 1)
         ELSE Panic

\* rustc_serialize's FromHex for str, as called on self[1..]
from_hex(s) == from_hex_loop(bytes(s), 1, 0)

\* ------------------------------------------------------------ str helpers

contains(list, s) == \E i \in 1..Len(list) : list[i] = s

chars_count(s) == Len(s)

RECURSIVE len(_)
len(s) == IF s = <<>> THEN 0 ELSE Utf8Len(Head(s)) + len(Tail(s))

\* self[1..]: byte offset 1 must be at most the byte length and fall on a
\* character boundary, else the slice panics
slice_from_1_ok(s) == s # <<>> /\ Utf8Len(Head(s)) = 1

\* letter case, for the inputs and variants the properties speak about
LowerPairs ==
    {<<"A", "a">>, <<"B", "b">>, <<"C", "c">>, <<"D", "d">>, <<"E", "e">>, <<"F", "f">>,
     <<"G", "g">>, <<"I", "i">>, <<"N", "n">>, <<"O", "o">>, <<"R", "r">>, <<"W", "w">>}

to_lowercase_char(c) ==
    IF \E p \in LowerPairs : p[1] = c THEN (CHOOSE p \in LowerPairs : p[1] = c)[2] ELSE c

to_uppercase_char(c) ==
    IF \E p \in LowerPairs : p[2] = c THEN (CHOOSE p \in LowerPairs : p[2] = c)[1] ELSE c

to_lowercase(s) == [i \in 1..Len(s) |-> to_lowercase_char(s[i])]

to_uppercase(s) == [i \in 1..Len(s) |-> to_uppercase_char(s[i])]

\* ------------------------------------------------------- into_hex_color

\* the tail of into_hex_color, from the '#' check on, shared by the variants
\* below that change an earlier step
hash_and_hex(s) ==
    IF s = <<>> THEN Panic
    ELSE IF Head(s) # "#" THEN Fail("ErrHexColor", MissingHashMsg)
    ELSE IF ~slice_from_1_ok(s) THEN Panic
    ELSE LET r == from_hex(Tail(s)) IN IF r.ok THEN Ok(s) ELSE r

\* variant: the keyword test ignores letter case
into_hex_color_nocase(s) ==
    IF contains(SLACK_COLORS, to_lowercase(s)) THEN Ok(s)
    ELSE IF chars_count(s) # 7 THEN Fail("ErrHexColor", WrongLengthMsg)
    ELSE hash_and_hex(s)

\* variant: the length test counts bytes, not characters
into_hex_color_bytelen(s) ==
    IF contains(SLACK_COLORS, s) THEN Ok(s)
    ELSE IF len(s) # 7 THEN Fail("ErrHexColor", WrongLengthMsg)
    ELSE hash_and_hex(s)

\* variant: the length test only rejects strings that are too long
into_hex_color_toolong(s) ==
    IF contains(SLACK_COLORS, s) THEN Ok(s)
    ELSE IF chars_count(s) > 7 THEN Fail("ErrHexColor", WrongLengthMsg)
    ELSE hash_and_hex(s)

\* variant: no test of the leading '#'
into_hex_color_nohash(s) ==
    IF contains(SLACK_COLORS, s) THEN Ok(s)
    ELSE IF chars_count(s) # 7 THEN Fail("ErrHexColor", WrongLengthMsg)
    ELSE IF ~slice_from_1_ok(s) THEN Panic
    ELSE LET r == from_hex(Tail(s)) IN IF r.ok THEN Ok(s) ELSE r

\* variant: the accepted hex code is stored in upper case
into_hex_color_upper(s) ==
    IF contains(SLACK_COLORS, s) THEN Ok(s)
    ELSE IF chars_count(s) # 7 THEN Fail("ErrHexColor", WrongLengthMsg)
    ELSE LET r == hash_and_hex(s) IN IF r.ok THEN Ok(to_uppercase(s)) ELSE r

\* variant: the whole string, '#' included, is given to the hex decoder
into_hex_color_noslice(s) ==
    IF contains(SLACK_COLORS, s) THEN Ok(s)
    ELSE IF chars_count(s) # 7 THEN Fail("ErrHexColor", WrongLengthMsg)
    ELSE IF s = <<>> THEN Panic
    ELSE IF Head(s) # "#" THEN Fail("ErrHexColor", MissingHashMsg)
    ELSE LET r == from_hex(s) IN IF r.ok THEN Ok(s) ELSE r

\* IntoHexColor for &str
into_hex_color(s) ==
    IF contains(SLACK_COLORS, s) THEN Ok(s)
    ELSE IF chars_count(s) # 7 THEN Fail("ErrHexColor", WrongLengthMsg)
    \* self.chars().next().unwrap()
    ELSE IF s = <<>> THEN Panic
    ELSE IF Head(s) # "#" THEN Fail("ErrHexColor", MissingHashMsg)
    \* self[1..]
    ELSE IF ~slice_from_1_ok(s) THEN Panic
    ELSE LET r == from_hex(Tail(s)) IN
         IF r.ok THEN Ok(s) ELSE r

\* HexColorT for SlackResult<HexColor>: Ok(try!(s.into_hex_color()))
new_str(s) ==
    LET r == into_hex_color(s) IN IF r.ok THEN Ok(r.text) ELSE r

\* HexColorT for HexColor: HexColor(color.to_string())
new_color(c) == Ok(to_string(c))

\* variant: the derived Debug of a String, which quotes it
fmt_quoted(hc) == <<"\"">> \o hc.text \o <<"\"">>

\* fmt::Debug for HexColor: write!(f, "{}", text)
fmt(hc) == hc.text

\* ToJson: Json::String(format!("{:?}", &self))
to_json(hc) == fmt(hc)

\* Encodable: encoder.emit_str(format!("{:?}", &self).as_ref())
encode(hc) == fmt(hc)

\* ------------------------------------------------------------- the inputs

\* every string over Alphabet of at most MaxLen characters
Strings == UNION {[1..n -> Alphabet] : n \in 0..MaxLen}

\* the strings of the test module, the keywords and their case variants
Fixtures ==
    {<<"a", "b", "c">>,
     <<"1", "2", "3", "4", "5", "6", "7">>,
     <<"#", "a", "b", "c", "1", "2", "z">>,
     <<"b", "a", "d">>,
     <<"#", "1", "0", "3", "D", "1", "8">>,
     <<"#", "1", "0", "3", "d", "1", "8">>,
     <<"#", "z", " ", "a", "b", "c", "1">>,
     <<"#", " ", "z", "a", "b", "c", "1">>,
     <<"#", "1", "2", "\t", "\n", "5", "6">>}
    \cup {SLACK_COLORS[i] : i \in 1..Len(SLACK_COLORS)}
    \cup {to_uppercase(SLACK_COLORS[i]) : i \in 1..Len(SLACK_COLORS)}
    \cup {<<to_uppercase_char(Head(SLACK_COLORS[i]))>> \o Tail(SLACK_COLORS[i]) :
             i \in 1..Len(SLACK_COLORS)}

Inputs == Strings \cup Fixtures

\* ------------------------------------------------------------ the machine

Init ==
    /\ \/ input \in Inputs /\ color = NoColor
       \/ input = <<>> /\ color \in SlackColor
    /\ pc = "start"
    /\ result = NoResult
    /\ text = <<>>
    /\ result2 = NoResult

\* let h: SlackResult<HexColor> = HexColorT::new(input)
NewFromStr ==
    /\ pc = "start"
    /\ color = NoColor
    /\ result' = new_str(input)
    /\ pc' = "constructed"
    /\ UNCHANGED <<input, color, text, result2>>

\* let h: HexColor = HexColorT::new(&color)
NewFromSlackColor ==
    /\ pc = "start"
    /\ color \in SlackColor
    /\ result' = new_color(color)
    /\ pc' = "constructed"
    /\ UNCHANGED <<input, color, text, result2>>

\* h.to_json()
ToJson ==
    /\ pc = "constructed"
    /\ result.ok
    /\ text' = to_json(result)
    /\ pc' = "serialized"
    /\ UNCHANGED <<input, color, result, result2>>

\* h.encode(encoder)
Encode ==
    /\ pc = "constructed"
    /\ result.ok
    /\ text' = encode(result)
    /\ pc' = "serialized"
    /\ UNCHANGED <<input, color, result, result2>>

\* HexColorT::new on the serialised text
Reparse ==
    /\ pc = "serialized"
    /\ result2' = new_str(text)
    /\ pc' = "reparsed"
    /\ UNCHANGED <<input, color, result, text>>

Next == NewFromStr \/ NewFromSlackColor \/ ToJson \/ Encode \/ Reparse

Spec == Init /\ [][Next]_vars

\* --------------------------------------------------------- the properties

Keywords ==
    {<<"g", "o", "o", "d">>,
     <<"w", "a", "r", "n", "i", "n", "g">>,
     <<"d", "a", "n", "g", "e", "r">>}

\* '#' followed by exactly six hexadecimal digits
IsHashHex(s) ==
    /\ Len(s) = 7
    /\ s[1] = "#"
    /\ \A i \in 2..7 : s[i] \in HexDigits

\* the input was given to HexColorT::new on &str and the call has returned
Parsed == color = NoColor /\ pc # "start"

\* the input is seven characters, starts with '#', and some character after
\* the '#' is no hexadecimal digit
HashNonHex(s) ==
    /\ Len(s) = 7
    /\ s[1] = "#"
    /\ \E i \in 2..7 : s[i] \notin HexDigits

\* position (1-based, in the whole string) of the leftmost character after
\* the '#' that is no hexadecimal digit
FirstNonHex(s) ==
    CHOOSE i \in 2..7 : s[i] \notin HexDigits /\ \A j \in 2..(i - 1) : s[j] \in HexDigits

\* position (1-based, in the whole string) of the leftmost character after
\* the '#' that is neither a hexadecimal digit nor skipped whitespace
HasRejected(s) == \E i \in 2..Len(s) : s[i] \notin (HexDigits \cup HexWhitespace)

FirstRejected(s) ==
    CHOOSE i \in 2..Len(s) :
        /\ s[i] \notin (HexDigits \cup HexWhitespace)
        /\ \A j \in 2..(i - 1) : s[j] \in (HexDigits \cup HexWhitespace)

\* C1: every constructed HexColor holds a keyword or '#' plus six hex digits
C1_AlwaysValidText ==
    (pc # "start" /\ result.ok) => (result.text \in Keywords \/ IsHashHex(result.text))

\* C2: '#' plus six characters, one of them no hex digit, always fails with
\* the invalid-character error carrying the leftmost such character
C2_NonHexIsInvalidHex ==
    (Parsed /\ HashNonHex(input)) =>
        /\ ~result.ok
        /\ result.kind = "ErrFromHex"
        /\ result.desc = "Invalid character"
        /\ result.ch = input[FirstNonHex(input)]

\* C3 as stated: the reported position is the 1-based position of the
\* reported character in the whole input, '#' being position 1
C3_PositionOneBasedInInput ==
    (Parsed /\ result.desc = "Invalid character") =>
        /\ HasRejected(input)
        /\ result.idx = FirstRejected(input)

\* C3 as amended: the reported position is the 0-based offset of the reported
\* character in the text after '#', that is its 1-based position in the
\* whole input less 2
C3_PositionZeroBasedAfterHash ==
    (Parsed /\ result.desc = "Invalid character") =>
        /\ HasRejected(input)
        /\ result.idx = FirstRejected(input) - 2
        /\ result.ch = input[FirstRejected(input)]

\* the test string "#abc12z" was rejected, with 'z' reported at position 5
C3_Witness ==
    /\ Parsed
    /\ result.desc = "Invalid character"
    /\ input = <<"#", "a", "b", "c", "1", "2", "z">>
    /\ result.idx = 5

C5_MissingHash ==
    (Parsed /\ input \notin Keywords /\ Len(input) = 7 /\ input[1] # "#") =>
        /\ ~result.ok
        /\ result.kind = "ErrHexColor"
        /\ result.desc = MissingHashMsg

\* "Warning" was rejected for its missing '#'
C5_Witness ==
    /\ Parsed
    /\ input = <<"W", "a", "r", "n", "i", "n", "g">>
    /\ result.desc = MissingHashMsg

\* C6: each keyword is accepted and serialised unchanged, before any length
\* or '#' test; a string differing from a keyword in letter case only is not
C6_Keywords ==
    /\ (Parsed /\ input \in Keywords) => result = Ok(input)
    /\ (Parsed /\ input \in Keywords /\ pc \in {"serialized", "reparsed"}) => text = input
    /\ (Parsed /\ input \notin Keywords /\ to_lowercase(input) \in Keywords) => ~result.ok

\* "warning" was accepted and serialised
C6_Witness ==
    /\ Parsed
    /\ pc = "serialized"
    /\ input = <<"w", "a", "r", "n", "i", "n", "g">>
    /\ text = input

\* C7: '#' plus six hex digits of any letter case is accepted and stored and
\* serialised character for character
C7_HexVerbatim ==
    /\ (Parsed /\ IsHashHex(input)) => result = Ok(input)
    /\ (Parsed /\ IsHashHex(input) /\ pc \in {"serialized", "reparsed"}) => text = input

\* a code of mixed letter case was accepted and serialised
C7_Witness ==
    /\ Parsed
    /\ pc = "serialized"
    /\ IsHashHex(input)
    /\ \E i, j \in 2..7 : input[i] = "a" /\ input[j] = "D"
    /\ text = input

\* C8: construction from a SlackColor always succeeds with the colour's
\* keyword, the keywords it yields are those of SLACK_COLORS, and the value
\* equals the one the keyword parses to
C8_Builtin ==
    (color \in SlackColor /\ pc # "start") =>
        /\ result.ok
        /\ color = "Good" => result.text = <<"g", "o", "o", "d">>
        /\ color = "Warning" => result.text = <<"w", "a", "r", "n", "i", "n", "g">>
        /\ color = "Danger" => result.text = <<"d", "a", "n", "g", "e", "r">>
        /\ \E i \in 1..Len(SLACK_COLORS) : SLACK_COLORS[i] = result.text
        /\ pc \in {"serialized", "reparsed"} => text = result.text
        /\ pc = "reparsed" => result2 = result

\* the value built from Warning was serialised and parsed again
C8_Witness ==
    /\ color = "Warning"
    /\ pc = "reparsed"
    /\ result2.ok

\* C9: parsing the serialised text of a parsed value succeeds with an equal
\* value
C9_RoundTrip ==
    (Parsed /\ pc = "reparsed") => (result2.ok /\ result2 = result)

\* a hex code was parsed, serialised and parsed again
C9_Witness ==
    /\ Parsed
    /\ pc = "reparsed"
    /\ IsHashHex(input)
    /\ result2.ok

\* C10: HexColorT::new on &str never panics: neither the unwrap of the first
\* character nor the slice from byte 1
C10_NoPanic ==
    /\ result.kind # "panic"
    /\ result2.kind # "panic"

\* inputs with a multi-byte character in first place and after '#' were
\* handled
C10_Witness ==
    /\ Parsed
    /\ Len(input) = 7
    /\ input[1] = "#"
    /\ input[2] = "U+00E9"
    /\ result.desc = "Invalid character"
    /\ result.ch = "U+00E9"

====
